---- MODULE Spec2Model ----
(***************************************************************************)
(* Model of the Financial-agent ingestion pipeline:                        *)
(*   app/services/ingestion/article_ingestion_service.py                   *)
(*       ArticleIngestionService (_validate_article, fetch_articles,       *)
(*       _get_existing_urls, queue_articles)                               *)
(*   app/workers/celery_worker.py                                          *)
(*       process_article_task, fetch_and_queue_articles_task               *)
(*   app/services/llm/ai_service.py                                        *)
(*       LLMService (check_relevance, summarize_article,                   *)
(*       classify_sentiment)                                               *)
(*                                                                         *)
(* Python dicts are functions whose DOMAIN is the set of keys present.     *)
(* Floats are fixed-point integers in tenths (1.4 is 14, 0.5 is 5).        *)
(***************************************************************************)
EXTENDS Integers, Sequences, FiniteSets, TLC

VARIABLES
    feed,            \* upstream: the feed's total results, served in pages
    f_pc,            \* fetch_articles: "idle", "request", "returned", "raised"
    max_pages,       \* fetch_articles: argument
    page,            \* fetch_articles: local
    attempt,         \* fetch_articles: loop variable of the retry loop
    all_articles,    \* fetch_articles: local, the value returned
    articles,        \* fetch_articles: local, [bound, val]; unbound until line 155 runs
    reqCount,        \* history: requests issued per page number in this call
    lastPageSeen,    \* history: a non-empty page shorter than pageSize was received
    reqAfterLast,    \* history: requests issued after lastPageSeen became true
    failedPage,      \* history: page whose max_retries attempts all failed (0: none)
    reqAfterFailed,  \* history: requests for failedPage issued after it failed
    fullPages,       \* history: highest page number received full so far
    anyFailure,      \* history: some request of this call did not return a page
    sinceStamp,      \* clock: ticks of time.time() elapsed since last_request_time
    fetchGap,        \* history: ticks between the last two passes of _rate_limit
    requestGap,      \* history: ticks between the end of the last request and the
                     \* start of the one about to be issued
    lastWait,        \* history: the last sleep of the retry loop: page, attempt
                     \* number and outcome it followed, seconds slept
    db,              \* record store: the URLs of the rows of table "articles"
    rows,            \* record store: the rows of table "articles", by article_id
    queue,           \* Celery queue of process_article messages (article dicts)
    redis_queue,     \* Redis list "article_queue" (the fallback of queue_articles)
    q_call,          \* the last queue_articles call: arguments, result, effects
    t_pc,            \* fetch_and_queue_articles_task: "idle", "fetching"
    runs,            \* runs of fetch_and_queue_articles_task started so far
    t_results,       \* what each finished run returned, in order
    q_runs,          \* queue_articles calls running at the same time: where each
                     \* stands, its batch, its new_articles, submissions made
    w_last,          \* how the last execution of process_article_task ended
    w_items,         \* the messages workers took from the Celery queue, in order:
                     \* arguments, retries so far, countdown of the pending
                     \* retry, and where the message stands
    llm_op,          \* LLMService: the operation called last ("none" before any)
    llm_args,        \* LLMService: its arguments
    llm_request,     \* LLMService: what it sent to chat.completions.create, if anything
    llm_reply,       \* LLMService: what chat.completions.create did
    llm_result       \* LLMService: the value the operation returned

fetchVars == <<f_pc, max_pages, page, attempt, all_articles, articles, reqCount,
               lastPageSeen, reqAfterLast, failedPage, reqAfterFailed, fullPages,
               anyFailure, sinceStamp, fetchGap, requestGap, lastWait>>

storeVars == <<db, rows, queue, redis_queue, q_call, w_last, w_items>>

taskVars == <<t_pc, runs, t_results, q_runs>>

llmVars == <<llm_op, llm_args, llm_request, llm_reply, llm_result>>

vars == <<feed, fetchVars, storeVars, taskVars, llmVars>>

-----------------------------------------------------------------------------
(* Bounds of the model *)

\* params["pageSize"] is 100 in the source; pages of the model hold PageSize entries
PageSize == 2
\* longest upstream feed (entries over all pages)
MaxFeedLen == 3
\* largest max_pages argument tried on a direct fetch_articles call
MaxPagesArg == 3
\* requests one fetch_articles call may issue before the model stops following it
MaxRequests == 5
\* requests one fetch_articles call made by the scheduled task is followed for
MaxTaskRequests == 3
\* longest batch handed to queue_articles directly
MaxBatch == 2
\* runs of the scheduled ingestion task
MaxRuns == 2
\* MAX_CONTENT_LENGTH is 2000 in the source; contents of the model are cut at
\* MAX_CONTENT_LENGTH characters
MAX_CONTENT_LENGTH == 3
\* largest max_length argument of summarize_article (the source defaults to 200)
MaxSummaryLength == 3
\* resolution of the clock: ticks in one second
TicksPerSecond == 2
\* longest time one requests.get takes, in ticks
MaxRequestTicks == 1

-----------------------------------------------------------------------------
(* Program constants *)

max_retries == 3
\* max_pages of the scheduled task
TaskMaxPages == 10
\* max_retries of process_article_task
task_max_retries == 3
\* seconds, the base of the countdown of a retry of process_article_task
RetryCountdownBase == 60
\* seconds; 1.0 in the source
min_request_interval == 1
\* seconds
retry_delay == 2
\* seconds slept on an error payload that names a rate limit (line 151)
RateLimitPayloadWait == 60
\* seconds, the base of the wait on HTTP 429 (line 181)
RateLimitBackoff == 60

-----------------------------------------------------------------------------
(* Raw entries.  None is Python's None; "" the empty string. *)

None == "None"

ArtA == [title |-> "A", url |-> "a", publishedAt |-> "d", source |-> "s"]
ArtB == [title |-> "B", url |-> "b", publishedAt |-> "d", source |-> "s"]
\* a second entry carrying ArtA's URL
ArtA2 == [title |-> "A2", url |-> "a", publishedAt |-> "d", source |-> "s"]
NoTitle == [url |-> "c", publishedAt |-> "d", source |-> "s"]
EmptyTitle == [title |-> "", url |-> "c", publishedAt |-> "d", source |-> "s"]
NoUrl == [title |-> "C", publishedAt |-> "d", source |-> "s"]
NoneUrl == [title |-> "C", url |-> None, publishedAt |-> "d", source |-> "s"]
NoSource == [title |-> "C", url |-> "c", publishedAt |-> "d"]
EmptySource == [title |-> "C", url |-> "c", publishedAt |-> "d", source |-> ""]
NoPublished == [title |-> "C", url |-> "c", source |-> "s"]
NonePublished == [title |-> "C", url |-> "c", publishedAt |-> None, source |-> "s"]

\* entries the upstream feed is made of
FeedEntries == {ArtA, ArtB, NoTitle, EmptySource}

\* dict.get(key): None when the key is absent
Get(article, field) == IF field \in DOMAIN article THEN article[field] ELSE None

\* Python truthiness of a field value
Falsy(v) == v \in {None, ""}

required_fields == {"title", "url", "publishedAt", "source"}

\* _validate_article as written: only url and title are tested for emptiness
ValidateArticle(article) ==
    IF ~ (\A field \in required_fields : field \in DOMAIN article)
    THEN FALSE
    ELSE IF Falsy(Get(article, "url")) \/ Falsy(Get(article, "title"))
         THEN FALSE
         ELSE TRUE

RECURSIVE ValidArticles(_)
\* [a for a in s if self._validate_article(a)]
ValidArticles(s) ==
    IF s = <<>> THEN <<>>
    ELSE IF ValidateArticle(Head(s)) THEN <<Head(s)>> \o ValidArticles(Tail(s))
         ELSE ValidArticles(Tail(s))

-----------------------------------------------------------------------------
(* Upstream feed *)

Min(a, b) == IF a < b THEN a ELSE b

\* the "articles" array of the response to page p (p >= 1)
PageOf(fd, p) == SubSeq(fd, (p - 1) * PageSize + 1, Min(p * PageSize, Len(fd)))

Feeds == UNION {[1..n -> FeedEntries] : n \in 0..MaxFeedLen}

\* what one GET can come back with
Outcomes == {"ok", "rate_payload", "error_payload", "http429", "http_error",
             "request_exception", "unexpected"}

-----------------------------------------------------------------------------
(* fetch_articles *)

\* Elapsed time is kept up to min_request_interval: _rate_limit only compares
\* it with that value.
MinTicks == min_request_interval * TicksPerSecond
Saturate(ticks) == Min(ticks, MinTicks)

RateLimitSleep_None(elapsed) == 0

\* lines 58-61: the ticks _rate_limit sleeps when `elapsed` ticks have passed
\* since last_request_time
RateLimitSleep(elapsed) ==
    IF elapsed < MinTicks THEN MinTicks - elapsed ELSE 0

BackoffSeconds_Escalating(out, att) ==
    IF out \in {"rate_payload", "http429"} THEN RateLimitBackoff * (att + 1)
    ELSE IF out \in {"http_error", "request_exception"} /\ att < max_retries - 1
         THEN retry_delay * (att + 1)
         ELSE 0

BackoffSeconds_Flat(out, att) ==
    IF out \in {"rate_payload", "http429"} THEN RateLimitBackoff
    ELSE IF out \in {"http_error", "request_exception"} THEN retry_delay
    ELSE 0

\* The seconds the retry loop sleeps after outcome out of attempt att (0-based)
BackoffSeconds(out, att) ==
    CASE out = "rate_payload" -> RateLimitPayloadWait                   \* 151
      [] out = "http429" -> RateLimitBackoff * (att + 1)                \* 181
      [] out = "http_error" ->                                          \* 185-187
            IF att = max_retries - 1 THEN 0 ELSE retry_delay * (att + 1)
      [] out = "request_exception" ->                                   \* 191-194
            IF att < max_retries - 1 THEN retry_delay * (att + 1) ELSE 0
      [] OTHER -> 0

NoWait == [page |-> 0, k |-> 0, out |-> "none", seconds |-> 0]

Unbound == [bound |-> FALSE, val |-> <<>>]
Bound(s) == [bound |-> TRUE, val |-> s]

FetchIdle ==
    /\ f_pc = "idle"
    /\ max_pages = 0 /\ page = 0 /\ attempt = 0
    /\ all_articles = <<>> /\ articles = Unbound
    /\ reqCount = [p \in 1..(MaxFeedLen + 1) |-> 0]
    /\ lastPageSeen = FALSE /\ reqAfterLast = 0
    /\ failedPage = 0 /\ reqAfterFailed = 0 /\ fullPages = 0
    /\ anyFailure = FALSE
    \* line 49: last_request_time = 0, an age ago on the clock of time.time()
    /\ sinceStamp = MinTicks
    /\ fetchGap = MinTicks /\ requestGap = MinTicks /\ lastWait = NoWait

\* lines 108-127: locals initialised, first test of the while condition
FetchEnter(mp) ==
    /\ max_pages' = mp
    /\ page' = 1
    /\ attempt' = 0
    /\ all_articles' = <<>>
    /\ articles' = Unbound
    /\ reqCount' = [p \in 1..(MaxFeedLen + 1) |-> 0]
    /\ lastPageSeen' = FALSE /\ reqAfterLast' = 0
    /\ failedPage' = 0 /\ reqAfterFailed' = 0 /\ fullPages' = 0
    /\ anyFailure' = FALSE
    \* line 131 on a service just built: nothing to sleep, the stamp is taken
    /\ sinceStamp' = IF 1 <= mp THEN 0 ELSE MinTicks
    /\ fetchGap' = MinTicks /\ requestGap' = MinTicks /\ lastWait' = NoWait
    /\ f_pc' = IF 1 <= mp THEN "request" ELSE "returned"

\* a direct call fetch_articles(max_pages = mp)
FetchCall ==
    /\ f_pc = "idle"
    /\ \E mp \in 0..MaxPagesArg : FetchEnter(mp)
    /\ UNCHANGED <<feed, storeVars, taskVars, llmVars>>

AfterRetryLoop_RaisesOnEmpty(arts, pg) ==
    IF ~ arts.bound \/ arts.val = <<>> THEN "raised"
    ELSE IF pg <= max_pages THEN "request"
    ELSE "returned"

AfterRetryLoop_IgnoresEmpty(arts, pg) ==
    IF ~ arts.bound THEN "raised"
    ELSE IF pg <= max_pages THEN "request"
    ELSE "returned"

\* Where control goes once the retry loop of a page is left (lines 200-202,
\* then the while test of line 127), given the locals at that point.
AfterRetryLoop(arts, pg) ==
    IF ~ arts.bound THEN "raised"              \* UnboundLocalError at line 201
    ELSE IF arts.val = <<>> THEN "returned"    \* break at line 202
    ELSE IF pg <= max_pages THEN "request"     \* next iteration of the while
    ELSE "returned"

\* Does the retry loop go on to another attempt after outcome out of attempt att?
RetryAgain(out, att) ==
    CASE out = "ok" -> FALSE                                       \* break, 159-176
      [] out = "rate_payload" -> att < max_retries - 1             \* continue, 152
      [] out = "error_payload" -> FALSE                            \* break, 153
      [] out = "http429" -> att < max_retries - 1                  \* continue, 182
      [] out = "http_error" -> ~ (att = max_retries - 1)           \* 185-187
      [] out = "request_exception" -> att < max_retries - 1        \* 191-194
      [] out = "unexpected" -> FALSE                               \* break, 198

RECURSIVE SumTo(_, _)
SumTo(f, n) == IF n = 0 THEN 0 ELSE f[n] + SumTo(f, n - 1)

\* requests issued so far by this call
Requests == SumTo(reqCount, MaxFeedLen + 1)

\* One requests.get of the retry loop (lines 134-198) with its outcome, up to the
\* next request or the end of the call.
FetchRequest ==
    /\ f_pc = "request"
    /\ Requests < (IF t_pc = "fetching" THEN MaxTaskRequests ELSE MaxRequests)
    /\ \E out \in Outcomes, took \in 0..MaxRequestTicks :
        LET got == PageOf(feed, page)
            last_attempt == (attempt = max_retries - 1)
            \* the response carried a usable page (lines 155-176)
            success == out = "ok"
            \* locals after this attempt
            arts == IF success THEN Bound(got) ELSE articles
            grown == IF success /\ got # <<>>
                     THEN all_articles \o ValidArticles(got) ELSE all_articles
            full == success /\ got # <<>> /\ ~ (Len(got) < PageSize)
            short == success /\ got # <<>> /\ Len(got) < PageSize
            pg == IF full THEN page + 1 ELSE page
            again == RetryAgain(out, attempt)
            exhausted == last_attempt /\ out \in {"rate_payload", "http429",
                                                  "http_error", "request_exception"}
            next_pc == IF again THEN "request" ELSE AfterRetryLoop(arts, pg)
            \* the clock: the request took `took` ticks, then the retry loop slept
            slept == BackoffSeconds(out, attempt)
            elapsed == Saturate(sinceStamp + took + slept * TicksPerSecond)
            \* line 131: the next pass of the while loop starts with _rate_limit
            limited == ~ again /\ next_pc = "request"
        IN  /\ articles' = arts
            /\ all_articles' = grown
            /\ page' = pg
            /\ attempt' = IF again THEN attempt + 1 ELSE 0
            /\ f_pc' = next_pc
            /\ lastWait' = IF again \/ slept > 0
                           THEN [page |-> page, k |-> attempt + 1, out |-> out,
                                 seconds |-> slept]
                           ELSE NoWait
            \* once the call is over nothing reads the clock again: each run of
            \* the task builds a service of its own (celery_worker.py line 73)
            /\ sinceStamp' = IF limited THEN 0
                             ELSE IF again THEN elapsed ELSE MinTicks
            \* what lies between this request and the next: the sleep of the
            \* retry loop and, on a new pass of the while loop, that of _rate_limit
            /\ requestGap' =
                  IF next_pc = "request"
                  THEN Saturate(slept * TicksPerSecond
                                + (IF limited THEN RateLimitSleep(elapsed) ELSE 0))
                  ELSE MinTicks
            /\ fetchGap' = IF limited
                           THEN Saturate(elapsed + RateLimitSleep(elapsed))
                           ELSE fetchGap
            /\ reqCount' = [reqCount EXCEPT ![page] = @ + 1]
            /\ reqAfterLast' = IF lastPageSeen THEN reqAfterLast + 1 ELSE reqAfterLast
            /\ lastPageSeen' = (lastPageSeen \/ short)
            /\ reqAfterFailed' = IF failedPage = page THEN reqAfterFailed + 1
                                 ELSE reqAfterFailed
            /\ failedPage' = IF exhausted /\ failedPage = 0 THEN page ELSE failedPage
            /\ fullPages' = IF full THEN page ELSE fullPages
            /\ anyFailure' = (anyFailure \/ ~ success)
    /\ UNCHANGED <<feed, max_pages, storeVars, taskVars, llmVars>>


-----------------------------------------------------------------------------
(* queue_articles *)

URLs == {"a", "b", "c"}

\* entries a batch handed to queue_articles directly is made of
BatchEntries == {ArtA, ArtA2, ArtB, NoTitle, EmptyTitle, NoUrl, NoneUrl,
                 NoSource, EmptySource, NoPublished, NonePublished}

Batches == UNION {[1..n -> BatchEntries] : n \in 0..MaxBatch}

Range(s) == {s[i] : i \in DOMAIN s}

\* lines 279-286: article_urls, the truthy URLs of the valid entries in order
ArticleUrls(valid) ==
    LET withUrl == SelectSeq(valid, LAMBDA a : ~ Falsy(Get(a, "url")))
    IN  [i \in 1..Len(withUrl) |-> Get(withUrl[i], "url")]

\* lines 280-286: url_to_article[url], the last valid entry carrying url
UrlToArticle(valid, url) ==
    LET at == {i \in 1..Len(valid) : Get(valid[i], "url") = url}
    IN  valid[CHOOSE i \in at : \A j \in at : j <= i]

GetExistingUrls_FailClosed(article_urls, store, lookup_ok) ==
    IF lookup_ok THEN {u \in Range(article_urls) : u \in store}
    ELSE Range(article_urls)

\* _get_existing_urls: one query; a failing query yields the empty set
GetExistingUrls(article_urls, store, lookup_ok) ==
    IF article_urls = <<>> THEN {}
    ELSE IF lookup_ok THEN {u \in Range(article_urls) : u \in store}
         ELSE {}

\* lines 302-306: one article per entry of article_urls whose URL is not known
NewArticles(valid, existing_urls) ==
    LET urls == SelectSeq(ArticleUrls(valid), LAMBDA u : u \notin existing_urls)
    IN  [i \in 1..Len(urls) |-> UrlToArticle(valid, urls[i])]

Accepted_All(new_articles, rejected, i) == new_articles

RECURSIVE Accepted(_, _, _)
\* lines 317-323 and 338-344: the articles of new_articles[i..] the queue accepted;
\* rejected holds the positions whose submission raised
Accepted(new_articles, rejected, i) ==
    IF i > Len(new_articles) THEN <<>>
    ELSE IF i \in rejected THEN Accepted(new_articles, rejected, i + 1)
         ELSE <<new_articles[i]>> \o Accepted(new_articles, rejected, i + 1)

Counts(total, new, duplicates, invalid, failed) ==
    [total |-> total, new |-> new, duplicates |-> duplicates,
     invalid |-> invalid, failed |-> failed]

Queries_PerUrl(article_urls) == Len(article_urls)

\* _get_existing_urls (lines 217-231): the queries one call makes: one query
\* with all the URLs in its IN list, none for an empty list
Queries(article_urls) == IF article_urls = <<>> THEN 0 ELSE 1

\* duplicates_count of line 346
DuplicatesCount(existing_urls) == Cardinality(existing_urls)

\* queue_articles(batch, use_celery) against record store `store`, where the
\* lookup succeeds iff lookup_ok, the import of the Celery task succeeds iff
\* import_ok and the submissions at the positions in `rejected` raise.
\* The value holds the dictionary returned and what was handed to each queue.
QueueArticles(batch, use_celery, store, lookup_ok, import_ok, rejected) ==
    LET valid == ValidArticles(batch)
        invalid_count == Len(batch) - Len(valid)
        article_urls == ArticleUrls(valid)
        existing_urls == GetExistingUrls(article_urls, store, lookup_ok)
        new_articles == NewArticles(valid, existing_urls)
        accepted == Accepted(new_articles, rejected, 1)
        queued_count == Len(accepted)
        failed_count == Len(new_articles) - Len(accepted)
        via_celery == use_celery /\ import_ok
        nothing == [to_celery |-> <<>>, to_redis |-> <<>>, lookups |-> 0,
                    existing_urls |-> {}, new_articles |-> <<>>]
    IN  IF batch = <<>>                                              \* 255-256
        THEN [result |-> Counts(0, 0, 0, 0, 0)] @@ nothing
        ELSE IF valid = <<>> \/ article_urls = <<>>                  \* 268-296
        THEN [result |-> Counts(Len(batch), 0, 0, invalid_count, 0)] @@ nothing
        ELSE [result |-> Counts(Len(batch), queued_count,
                                DuplicatesCount(existing_urls),
                                invalid_count, failed_count),
              to_celery |-> IF via_celery THEN accepted ELSE <<>>,
              to_redis |-> IF via_celery THEN <<>> ELSE accepted,
              lookups |-> Queries(article_urls),
              existing_urls |-> existing_urls,
              new_articles |-> new_articles]

\* json.dumps(article): the serialised form is not the dict
Dumps(article) == [json |-> article]

RECURSIVE Lpush(_, _)
\* redis_client.lpush("article_queue", ...) once per accepted article, in order
Lpush(list, items) ==
    IF items = <<>> THEN list
    ELSE Lpush(<<Dumps(Head(items))>> \o list, Tail(items))

ArticlesAfter_Filtered(batch) == ValidArticles(batch)

\* the list passed as `articles` as the caller finds it after the call: lines
\* 255-361 iterate over it and read its entries (in, get, json.dumps, delay);
\* no statement assigns to it, to an entry or to a key of an entry
ArticlesAfter(batch) == batch

NoCall == [called |-> FALSE, batch |-> <<>>, articles_after |-> <<>>,
           use_celery |-> TRUE,
           lookup_ok |-> TRUE, store |-> {}, rejected |-> {}]
          @@ QueueArticles(<<>>, TRUE, {}, TRUE, TRUE, {})

\* positions of new_articles whose submission may raise
Rejections(batch, store, lookup_ok) ==
    SUBSET (1..Len(NewArticles(ValidArticles(batch),
                   GetExistingUrls(ArticleUrls(ValidArticles(batch)), store, lookup_ok))))

\* the effect of one queue_articles call on the two queues and on q_call
QueueEffect(batch, use_celery, lookup_ok, import_ok, rejected) ==
    LET r == QueueArticles(batch, use_celery, db, lookup_ok, import_ok, rejected)
    IN  /\ queue' = queue \o r.to_celery
        /\ redis_queue' = Lpush(redis_queue, r.to_redis)
        /\ q_call' = [called |-> TRUE, batch |-> batch,
                      articles_after |-> ArticlesAfter(batch),
                      use_celery |-> use_celery,
                      lookup_ok |-> lookup_ok, store |-> db,
                      rejected |-> rejected] @@ r

\* a direct call queue_articles(batch, use_celery)
QueueCall ==
    /\ ~ q_call.called
    /\ \E batch \in Batches, use_celery \in BOOLEAN,
          lookup_ok \in BOOLEAN, import_ok \in BOOLEAN :
          \E rejected \in Rejections(batch, db, lookup_ok) :
              QueueEffect(batch, use_celery, lookup_ok, import_ok, rejected)
    /\ UNCHANGED <<feed, fetchVars, taskVars, db, rows, w_last, w_items,
                   llmVars>>

-----------------------------------------------------------------------------
(* queue_articles called by runs that overlap *)

\* two runs of the scheduled task at the same time: the beat schedule
\* (celery_app.py lines 27-33) starts one every 5 minutes whether or not the
\* one before has returned
OverlappingRuns == {"r1", "r2"}

\* entries the batches of overlapping runs are made of
OverlapEntries == {ArtA, ArtA2, ArtB, NoTitle}

OverlapBatches == UNION {[1..n -> OverlapEntries] : n \in 0..MaxBatch}

RunState(pc, batch, new_articles, submitted) ==
    [pc |-> pc, batch |-> batch, new_articles |-> new_articles,
     submitted |-> submitted]

RunIdle == RunState("idle", <<>>, <<>>, 0)

\* lines 255-306 of one run: validation, the lookup of the known URLs in the
\* record store as it is now, and the list of new articles
OverlapLookup(r) ==
    /\ q_runs[r].pc = "idle"
    /\ \E batch \in OverlapBatches, lookup_ok \in BOOLEAN :
          LET valid == ValidArticles(batch)
              existing_urls == GetExistingUrls(ArticleUrls(valid), db, lookup_ok)
              new_articles == NewArticles(valid, existing_urls)
          IN  q_runs' = [q_runs EXCEPT ![r] =
                  RunState(IF new_articles = <<>> THEN "returned"
                           ELSE "submitting", batch, new_articles, 0)]
    /\ UNCHANGED <<feed, fetchVars, storeVars, t_pc, runs, t_results, llmVars>>

\* lines 317-323 of one run: one pass of the loop over new_articles;
\* process_article_task.delay puts the article on the Celery queue or raises
OverlapSubmit(r) ==
    /\ q_runs[r].pc = "submitting"
    /\ LET run == q_runs[r]
           article == run.new_articles[run.submitted + 1]
       IN  /\ \E raised \in BOOLEAN :
                 queue' = IF raised THEN queue ELSE Append(queue, article)
           /\ q_runs' = [q_runs EXCEPT ![r] =
                  RunState(IF run.submitted + 1 = Len(run.new_articles)
                           THEN "returned" ELSE "submitting",
                           run.batch, run.new_articles, run.submitted + 1)]
    /\ UNCHANGED <<feed, fetchVars, db, rows, redis_queue, q_call,
                   w_last, w_items, t_pc, runs, t_results, llmVars>>

-----------------------------------------------------------------------------
(* process_article_task *)

NoReturn == [status |-> "none", article_url |-> None]

\* a message of process_article: its argument, self.request.retries, the
\* countdown it was last re-sent with, and where it stands: "retry" (re-sent,
\* waiting to be delivered), "success", "failure" (the task raised for good)
\* or "lost" (acknowledged, never finished)
Item(article_data, retries, countdown, status) ==
    [article_data |-> article_data, retries |-> retries,
     countdown |-> countdown, status |-> status]

RetryCountdown_Flat(retries) == RetryCountdownBase

\* line 48: countdown=60 * (self.request.retries + 1)
RetryCountdown(retries) == RetryCountdownBase * (retries + 1)

Exhausted_OffByOne(retries) == retries > task_max_retries

\* self.retry with max_retries=3 (line 18): once the message was retried
\* max_retries times it raises the error instead of sending the message again
Exhausted(retries) == retries >= task_max_retries

\* lines 45-48: the body raised during an execution of `item`
AfterError(item) ==
    IF Exhausted(item.retries)
    THEN Item(item.article_data, item.retries, item.countdown, "failure")
    ELSE Item(item.article_data, item.retries + 1,
              RetryCountdown(item.retries), "retry")

\* line 43: the body ran to its end
AfterSuccess(item) ==
    Item(item.article_data, item.retries, item.countdown, "success")

Returned(item) ==
    [status |-> item.status, article_url |-> Get(item.article_data, "url")]

Pending_AlsoFailed(item) == item.status \in {"retry", "failure"}

\* the messages the broker still holds for delivery after a retry
Pending(item) == item.status = "retry"

\* lines 31-43: the task logs and returns; nothing is written to the record store
ProcessArticle ==
    /\ queue # <<>>
    /\ LET item == AfterSuccess(Item(Head(queue), 0, 0, "running"))
       IN  /\ w_last' = Returned(item)
           /\ w_items' = Append(w_items, item)
    /\ queue' = Tail(queue)
    /\ UNCHANGED <<feed, fetchVars, taskVars, db, rows, redis_queue, q_call,
                   llmVars>>

\* lines 31-48 on the first delivery of a message, when the body raises
ProcessArticleRaises ==
    /\ queue # <<>>
    /\ LET item == AfterError(Item(Head(queue), 0, 0, "running"))
       IN  /\ w_last' = Returned(item)
           /\ w_items' = Append(w_items, item)
    /\ queue' = Tail(queue)
    /\ UNCHANGED <<feed, fetchVars, taskVars, db, rows, redis_queue, q_call,
                   llmVars>>

\* lines 31-48 on the delivery of a retried message: the task runs again from
\* its first line on the same argument
RetryDelivered ==
    /\ \E id \in DOMAIN w_items, raised \in BOOLEAN :
          /\ Pending(w_items[id])
          /\ LET item == IF raised THEN AfterError(w_items[id])
                         ELSE AfterSuccess(w_items[id])
             IN  /\ w_last' = Returned(item)
                 /\ w_items' = [w_items EXCEPT ![id] = item]
    /\ UNCHANGED <<feed, fetchVars, taskVars, db, rows, queue, redis_queue,
                   q_call, llmVars>>

\* The worker process is killed while it executes the head of the queue.
\* celery_app.conf (celery_app.py lines 14-24) sets neither task_acks_late nor
\* task_reject_on_worker_lost, so the message was acknowledged when the worker
\* received it and the broker does not deliver it again.
WorkerKilled ==
    /\ queue # <<>>
    /\ w_items' = Append(w_items, Item(Head(queue), 0, 0, "lost"))
    /\ queue' = Tail(queue)
    /\ UNCHANGED <<feed, fetchVars, taskVars, db, rows, redis_queue, q_call,
                   w_last, llmVars>>

-----------------------------------------------------------------------------
(* Table "articles" *)

\* the columns declared nullable=False that a writer supplies (article.py
\* lines 11-14)
NotNull == {"title", "source", "url", "published_at"}

ArticleRow(title, source, url, published_at) ==
    [title |-> title, source |-> source, url |-> url,
     published_at |-> published_at]

\* the URLs the table holds
RowUrls(table) == {table[i].url : i \in DOMAIN table}

RECURSIVE StoredRows(_)
\* a table that holds one row for each URL of urls, written earlier
StoredRows(urls) ==
    IF urls = {} THEN <<>>
    ELSE LET u == CHOOSE x \in urls : TRUE
         IN  <<ArticleRow("stored", "s", u, "d")>> \o StoredRows(urls \ {u})

Insert_NoUniqueCheck(table, row) ==
    IF \E column \in NotNull : row[column] = None THEN table
    ELSE Append(table, row)

\* INSERT of one row under the constraints of the table: a NULL in a
\* nullable=False column or a url the table already holds (unique=True, line 13)
\* is refused and leaves the table as it was
Insert(table, row) ==
    IF \E column \in NotNull : row[column] = None THEN table
    ELSE IF row.url \in RowUrls(table) THEN table
    ELSE Append(table, row)

\* the row a worker writes for an article in NewsAPI format
RowOf(article_data) ==
    ArticleRow(Get(article_data, "title"), Get(article_data, "source"),
               Get(article_data, "url"), Get(article_data, "publishedAt"))

\* Step 4 of process_article_task, "Store in database": a worker that was
\* delivered a message of the queue writes its row.  The message leaves the
\* queue, or stays for a further delivery to another worker.
PersistArticle ==
    /\ \E i \in DOMAIN queue, redelivered \in BOOLEAN :
          LET article_data == queue[i]
              table == Insert(rows, RowOf(article_data))
          IN  /\ rows' = table
              /\ db' = RowUrls(table)
              /\ w_last' = [status |-> IF table = rows THEN "rejected"
                                       ELSE "success",
                            article_url |-> Get(article_data, "url")]
              /\ queue' = IF redelivered THEN queue
                          ELSE SubSeq(queue, 1, i - 1)
                               \o SubSeq(queue, i + 1, Len(queue))
    /\ UNCHANGED <<feed, fetchVars, taskVars, redis_queue, q_call, w_items,
                   llmVars>>

-----------------------------------------------------------------------------
(* fetch_and_queue_articles_task *)

NoQueueResult == Counts(0, 0, 0, 0, 0)

\* lines 64-84: a new service fetches with max_pages = 10
TaskStart ==
    /\ t_pc = "idle"
    /\ runs < MaxRuns
    /\ FetchEnter(TaskMaxPages)
    /\ t_pc' = "fetching"
    /\ runs' = runs + 1
    /\ UNCHANGED <<feed, storeVars, t_results, q_runs, llmVars>>

\* lines 86-102: fetch_articles returned; queue what it returned and report
TaskQueue ==
    /\ t_pc = "fetching"
    /\ f_pc = "returned"
    /\ IF all_articles = <<>>
       THEN /\ t_results' = Append(t_results,
                   [status |-> "success", articles_fetched |-> 0,
                    has_queue_result |-> FALSE, queue_result |-> NoQueueResult,
                    fetched |-> all_articles, lookup_ok |-> TRUE,
                    rejected |-> {}])
            /\ UNCHANGED <<queue, redis_queue, q_call>>
       ELSE \E lookup_ok \in BOOLEAN :
            \E rejected \in Rejections(all_articles, db, lookup_ok) :
               /\ QueueEffect(all_articles, TRUE, lookup_ok, TRUE, rejected)
               /\ t_results' = Append(t_results,
                   [status |-> "success", articles_fetched |-> Len(all_articles),
                    has_queue_result |-> TRUE,
                    queue_result |-> QueueArticles(all_articles, TRUE, db,
                                        lookup_ok, TRUE, rejected).result,
                    fetched |-> all_articles, lookup_ok |-> lookup_ok,
                    rejected |-> rejected])
    /\ t_pc' = "idle"
    /\ UNCHANGED <<feed, fetchVars, db, rows, w_last, w_items, runs, q_runs,
                   llmVars>>

\* lines 104-106: fetch_articles raised; the task reports an error result
TaskError ==
    /\ t_pc = "fetching"
    /\ f_pc = "raised"
    /\ t_results' = Append(t_results,
           [status |-> "error", articles_fetched |-> 0,
            has_queue_result |-> FALSE, queue_result |-> NoQueueResult,
            fetched |-> all_articles, lookup_ok |-> TRUE, rejected |-> {}])
    /\ t_pc' = "idle"
    /\ UNCHANGED <<feed, fetchVars, storeVars, runs, q_runs, llmVars>>

-----------------------------------------------------------------------------
(* LLMService *)

\* JSON values as the capability can return them
JNum(n) == [t |-> "num", n |-> n]
JStr(x) == [t |-> "str", s |-> x]
JBool(b) == [t |-> "bool", b |-> b]
JNull == [t |-> "null"]
JList(items) == [t |-> "list", items |-> items]
JObject(fields) == [t |-> "object", fields |-> fields]

\* JSON objects with any subset of the keys of ValuesOf, each with one of its values
ObjectsOver(ValuesOf, AllValues) ==
    UNION {{f \in [K -> AllValues] : \A k \in K : f[k] \in ValuesOf[k]} :
           K \in SUBSET DOMAIN ValuesOf}

RelevanceValues ==
    [relevant |-> {JBool(TRUE), JBool(FALSE), JNum(0), JNull, JStr("maybe")},
     companies |-> {JList(<<>>), JList(<<"NVDA">>), JNull},
     confidence |-> {JNum(0), JNum(9), JNum(15), JNull, JStr("high")}]

SentimentValues ==
    [sentiment_score |-> {JNum(-14), JNum(-10), JNum(-3), JNum(0), JNum(7),
                          JNum(10), JNum(14), JNull, JStr("high")},
     sentiment_label |-> {JStr("positive"), JStr("negative"), JStr("neutral"),
                          JStr("bullish"), JNull},
     confidence |-> {JNum(0), JNum(8), JNum(12), JNull}]

AllOf(ValuesOf) == UNION {ValuesOf[k] : k \in DOMAIN ValuesOf}

\* response.choices[0].message.content: text that is no JSON, JSON that is no
\* object, a JSON object, or no content at all
MessageContents(ValuesOf) ==
    {[text |-> "garbage"], [text |-> "none"],
     [text |-> "json", value |-> JList(<<>>)]}
    \cup {[text |-> "json", value |-> JObject(f)] :
            f \in ObjectsOver(ValuesOf, AllOf(ValuesOf))}

\* what chat.completions.create does: raises OpenAIError, raises
\* BadRequestError (the subclass of OpenAIError the API answers a malformed
\* request with), raises another exception, or returns a response
Replies(ValuesOf) ==
    {[kind |-> "openai_error"], [kind |-> "bad_request"], [kind |-> "exception"]}
    \cup {[kind |-> "response", content |-> c] : c \in MessageContents(ValuesOf)}

NoReply == [kind |-> "none"]
NoRequest == [sent |-> FALSE]

\* json.loads(result_text): raises on None and on text that is no JSON
JsonLoads(content) ==
    IF content.text = "json" THEN [ok |-> TRUE, value |-> content.value]
    ELSE [ok |-> FALSE]

\* result.get(key, default); raises AttributeError when result is no dict
HasGet(value) == value.t = "object"
JGet(value, key, default) ==
    IF key \in DOMAIN value.fields THEN value.fields[key] ELSE default

Chars == {"x", " "}
Contents == UNION {[1..n -> Chars] : n \in 0..(MAX_CONTENT_LENGTH + 1)}
Titles == {<<>>, <<"x">>}
TickerLists == {<<>>, <<"NVDA">>, <<"NVDA", "AAPL">>}
Marker == <<".", ".", ".">>

\* Truncate keeping the last characters instead of the first
Truncate_KeepsTail(article_content) ==
    IF Len(article_content) > MAX_CONTENT_LENGTH
    THEN SubSeq(article_content, Len(article_content) - MAX_CONTENT_LENGTH + 1,
                Len(article_content)) \o Marker
    ELSE article_content

\* Truncate without the marker
Truncate_NoMarker(article_content) ==
    IF Len(article_content) > MAX_CONTENT_LENGTH
    THEN SubSeq(article_content, 1, MAX_CONTENT_LENGTH)
    ELSE article_content

\* lines 75-78, 138-141, 199-202: article_content[:max_content_length] + "..."
Truncate(article_content) ==
    IF Len(article_content) > MAX_CONTENT_LENGTH
    THEN SubSeq(article_content, 1, MAX_CONTENT_LENGTH) \o Marker
    ELSE article_content

RelevanceResult(relevant, companies, confidence) ==
    [relevant |-> relevant, companies |-> companies, confidence |-> confidence]

\* NoTickers with the early return of line 70 never taken
NoTickers_NeverTaken(tracked_tickers) == FALSE

\* line 70: not tracked_tickers
NoTickers(tracked_tickers) == tracked_tickers = <<>>

\* RelevanceFallback failing closed instead of open
RelevanceFallback_Closed == RelevanceResult(FALSE, <<>>, 0)

\* lines 118-124: the value both except clauses return
RelevanceFallback == RelevanceResult(TRUE, <<>>, 5)

\* the validation of field relevant: bool of RelevanceResult: a JSON boolean
\* is taken as it is, the numbers 0 and 1 are read as false and true, null and
\* a text that names no boolean are refused
AsBool(value) ==
    IF value.t = "bool" THEN [ok |-> TRUE, b |-> value.b]
    ELSE IF value.t = "num" /\ value.n = 0 THEN [ok |-> TRUE, b |-> FALSE]
    ELSE IF value.t = "num" /\ value.n = 10 THEN [ok |-> TRUE, b |-> TRUE]
    ELSE [ok |-> FALSE]

RelevantDefault_True == JBool(TRUE)

\* line 116: the default of result.get("relevant", False)
RelevantDefault == JBool(FALSE)

\* lines 113-116: the reply parsed and validated into a RelevanceResult;
\* ok is FALSE where json.loads, .get or the pydantic validation raises
ParseRelevance(content) ==
    LET loaded == JsonLoads(content)
        result == loaded.value
        relevant == AsBool(JGet(result, "relevant", RelevantDefault))
        companies == JGet(result, "companies", JList(<<>>))
        confidence == JGet(result, "confidence", JNum(0))
    IN  IF ~ loaded.ok THEN [ok |-> FALSE]
        ELSE IF ~ HasGet(result) THEN [ok |-> FALSE]
        ELSE IF ~ relevant.ok \/ companies.t # "list" \/ confidence.t # "num"
             THEN [ok |-> FALSE]
             ELSE [ok |-> TRUE,
                   value |-> RelevanceResult(relevant.b, companies.items, confidence.n)]

\* check_relevance(article_title, article_content, tracked_tickers) when the
\* capability, if invoked, does `reply`: the value returned and the request made
CheckRelevance(article_title, article_content, tracked_tickers, reply) ==
    LET request == [sent |-> TRUE, tickers |-> tracked_tickers,
                    title |-> article_title, content |-> Truncate(article_content)]
        parsed == ParseRelevance(reply.content)
    IN  IF NoTickers(tracked_tickers)
        THEN [result |-> RelevanceResult(FALSE, <<>>, 0), request |-> NoRequest]
        ELSE IF reply.kind # "response"
        THEN [result |-> RelevanceFallback, request |-> request]
        ELSE IF ~ parsed.ok
        THEN [result |-> RelevanceFallback, request |-> request]
        ELSE [result |-> parsed.value, request |-> request]

SentimentResult(sentiment_score, sentiment_label, confidence) ==
    [sentiment_score |-> sentiment_score, sentiment_label |-> sentiment_label,
     confidence |-> confidence]

SentimentFallback_Positive == SentimentResult(10, "positive", 10)

\* lines 251-257: the value both except clauses return
SentimentFallback == SentimentResult(0, "neutral", 0)

\* lines 242-249: the reply parsed into a SentimentResult; float() raises on
\* None and on text that is no number, the validation on a label that is no str
ParseSentiment(content) ==
    LET loaded == JsonLoads(content)
        result == loaded.value
        score == JGet(result, "sentiment_score", JNum(0))
        label == JGet(result, "sentiment_label", JStr("neutral"))
        confidence == JGet(result, "confidence", JNum(5))
    IN  IF ~ loaded.ok THEN [ok |-> FALSE]
        ELSE IF ~ HasGet(result) THEN [ok |-> FALSE]
        ELSE IF score.t # "num" \/ label.t # "str" \/ confidence.t # "num"
             THEN [ok |-> FALSE]
             ELSE [ok |-> TRUE,
                   value |-> SentimentResult(score.n, label.s, confidence.n)]

\* classify_sentiment(article_title, article_content) when the capability does `reply`
ClassifySentiment(article_title, article_content, reply) ==
    LET request == [sent |-> TRUE, tickers |-> <<>>,
                    title |-> article_title, content |-> Truncate(article_content)]
        parsed == ParseSentiment(reply.content)
    IN  IF reply.kind # "response"
        THEN [result |-> SentimentFallback, request |-> request]
        ELSE IF ~ parsed.ok
        THEN [result |-> SentimentFallback, request |-> request]
        ELSE [result |-> parsed.value, request |-> request]

\* str.strip() (line 170): leading and trailing whitespace removed
RECURSIVE LStrip(_)
LStrip(s) == IF s # <<>> /\ Head(s) = " " THEN LStrip(Tail(s)) ELSE s

RECURSIVE RStrip(_)
RStrip(s) ==
    IF s # <<>> /\ s[Len(s)] = " " THEN RStrip(SubSeq(s, 1, Len(s) - 1)) ELSE s

Strip(s) == RStrip(LStrip(s))

\* the slice s[:n]
Take(s, n) == SubSeq(s, 1, Min(n, Len(s)))

\* position of the last space of s, 0 when it has none
LastSpace(s) ==
    IF \E i \in 1..Len(s) : s[i] = " "
    THEN CHOOSE i \in 1..Len(s) :
            s[i] = " " /\ \A j \in (i + 1)..Len(s) : s[j] # " "
    ELSE 0

RsplitHead_Whole(s) == s

\* s.rsplit(' ', 1)[0] (line 174): what precedes the last space, s itself
\* when it has no space
RsplitHead(s) ==
    IF LastSpace(s) = 0 THEN s ELSE SubSeq(s, 1, LastSpace(s) - 1)

\* lines 173-174: the capability's text brought under max_length
Shorten(summary, max_length) ==
    IF Len(summary) > max_length
    THEN RsplitHead(Take(summary, max_length)) \o Marker
    ELSE summary

\* lines 181 and 184: the value both except clauses return; article_content is
\* the content as truncated at lines 139-141
SummaryFallback(article_content, max_length) ==
    IF Len(article_content) > max_length
    THEN Take(article_content, max_length) \o Marker
    ELSE article_content

\* the max_length arguments and the texts the capability can answer with
MaxLengths == 1..MaxSummaryLength
Summaries == UNION {[1..n -> Chars] : n \in 0..(MaxSummaryLength + 2)}

\* response.choices[0].message.content of a summarization: a text or None
SummaryReplies ==
    {[kind |-> "openai_error"], [kind |-> "bad_request"], [kind |-> "exception"],
     [kind |-> "response", content |-> [text |-> "none"]]}
    \cup {[kind |-> "response", content |-> [text |-> "plain", value |-> s]] :
            s \in Summaries}

\* summarize_article(article_title, article_content, max_length) when the
\* capability does `reply`; None has no strip(), which the second except catches
SummarizeArticle(article_title, article_content, max_length, reply) ==
    LET truncated == Truncate(article_content)
        request == [sent |-> TRUE, tickers |-> <<>>, title |-> article_title,
                    content |-> truncated, max_length |-> max_length]
    IN  IF reply.kind # "response"
        THEN [result |-> [summary |-> SummaryFallback(truncated, max_length)],
              request |-> request]
        ELSE IF reply.content.text # "plain"
        THEN [result |-> [summary |-> SummaryFallback(truncated, max_length)],
              request |-> request]
        ELSE [result |-> [summary |-> Shorten(Strip(reply.content.value),
                                              max_length)],
              request |-> request]

NoArgs == [title |-> <<>>, content |-> <<>>, tracked_tickers |-> <<>>]

LLMIdle ==
    /\ llm_op = "none" /\ llm_args = NoArgs /\ llm_request = NoRequest
    /\ llm_reply = NoReply /\ llm_result = RelevanceResult(FALSE, <<>>, 0)

\* LLMService keeps no state between calls: one call per behaviour covers them all
CallRelevance ==
    /\ llm_op = "none"
    /\ \E title \in Titles, content \in Contents, tickers \in TickerLists,
          reply \in Replies(RelevanceValues) :
          LET r == CheckRelevance(title, content, tickers, reply)
          IN  /\ llm_op' = "check_relevance"
              /\ llm_args' = [title |-> title, content |-> content,
                              tracked_tickers |-> tickers]
              /\ llm_request' = r.request
              /\ llm_reply' = IF r.request.sent THEN reply ELSE NoReply
              /\ llm_result' = r.result
    /\ UNCHANGED <<feed, fetchVars, storeVars, taskVars>>

CallSentiment ==
    /\ llm_op = "none"
    /\ \E title \in Titles, content \in Contents,
          reply \in Replies(SentimentValues) :
          LET r == ClassifySentiment(title, content, reply)
          IN  /\ llm_op' = "classify_sentiment"
              /\ llm_args' = [title |-> title, content |-> content,
                              tracked_tickers |-> <<>>]
              /\ llm_request' = r.request
              /\ llm_reply' = reply
              /\ llm_result' = r.result
    /\ UNCHANGED <<feed, fetchVars, storeVars, taskVars>>

CallSummarize ==
    /\ llm_op = "none"
    /\ \E title \in Titles, content \in Contents, max_length \in MaxLengths,
          reply \in SummaryReplies :
          LET r == SummarizeArticle(title, content, max_length, reply)
          IN  /\ llm_op' = "summarize_article"
              /\ llm_args' = [title |-> title, content |-> content,
                              tracked_tickers |-> <<>>,
                              max_length |-> max_length]
              /\ llm_request' = r.request
              /\ llm_reply' = reply
              /\ llm_result' = r.result
    /\ UNCHANGED <<feed, fetchVars, storeVars, taskVars>>

-----------------------------------------------------------------------------
(* Specifications *)

StoreIdle ==
    /\ queue = <<>> /\ redis_queue = <<>>
    /\ q_call = NoCall /\ w_last = NoReturn /\ w_items = <<>>
    /\ rows = StoredRows(db)

TaskIdle ==
    /\ t_pc = "idle" /\ runs = 0 /\ t_results = <<>>
    /\ q_runs = [r \in OverlappingRuns |-> RunIdle]

\* fetch_articles called directly
InitFetch ==
    /\ feed \in Feeds
    /\ FetchIdle
    /\ db = {} /\ StoreIdle /\ TaskIdle /\ LLMIdle

NextFetch == FetchCall \/ FetchRequest

SpecFetch == InitFetch /\ [][NextFetch]_vars

\* queue_articles called directly, with the worker consuming the queue
InitQueue ==
    /\ feed = <<>>
    /\ FetchIdle
    /\ db \in SUBSET URLs
    /\ StoreIdle /\ TaskIdle /\ LLMIdle

NextQueue == QueueCall \/ ProcessArticle

SpecQueue == InitQueue /\ [][NextQueue]_vars

\* queue_articles called directly, with workers whose executions may raise and
\* whose process may be killed
NextWorker ==
    QueueCall \/ ProcessArticle \/ ProcessArticleRaises \/ RetryDelivered
    \/ WorkerKilled

SpecWorker == InitQueue /\ [][NextWorker]_vars

\* queue_articles called directly, with workers that write to the record store
NextStore == QueueCall \/ PersistArticle

SpecStore == InitQueue /\ [][NextStore]_vars

\* two queue_articles calls whose steps interleave
NextOverlap == \E r \in OverlappingRuns : OverlapLookup(r) \/ OverlapSubmit(r)

SpecOverlap == InitQueue /\ [][NextOverlap]_vars

\* one operation of LLMService on any arguments and any reply
InitLLM ==
    /\ feed = <<>>
    /\ FetchIdle
    /\ db = {} /\ StoreIdle /\ TaskIdle /\ LLMIdle

NextLLM == CallRelevance \/ CallSentiment \/ CallSummarize

SpecLLM == InitLLM /\ [][NextLLM]_vars

\* the scheduled ingestion runs and the worker
Init ==
    /\ feed \in Feeds
    /\ FetchIdle
    /\ db \in SUBSET URLs
    /\ StoreIdle /\ TaskIdle /\ LLMIdle

Next == TaskStart \/ FetchRequest \/ TaskQueue \/ TaskError \/ ProcessArticle

Spec == Init /\ [][Next]_vars

-----------------------------------------------------------------------------
(* Claims about fetch_articles *)

\* number of the feed's last page when that page is non-empty and short
ShortLastPage == Len(feed) \div PageSize + 1

\* the feed ends in a non-empty page shorter than PageSize
EndsShort == Len(feed) % PageSize # 0

\* C1: once a response carried a non-empty page of fewer than pageSize
\* articles, fetch_articles issues no further request and has returned.
C1_StopsAtShortPage ==
    lastPageSeen => (reqAfterLast = 0 /\ f_pc = "returned")

\* C2: for a feed with full pages 1..N-1 and a short non-empty page N that
\* answers every request, and max_pages > N, every page 1..N is requested
\* at most once while the call runs, and the call returns exactly the valid
\* items of pages 1..N, each once, having requested each page exactly once.
C2_ExactlyNPages ==
    (EndsShort /\ ~ anyFailure /\ max_pages > ShortLastPage /\ f_pc # "idle") =>
        /\ \A p \in 1..ShortLastPage : reqCount[p] <= 1
        /\ f_pc = "returned" =>
              /\ all_articles = ValidArticles(feed)
              /\ \A p \in 1..ShortLastPage : reqCount[p] = 1

\* C3: when all max_retries attempts of a page failed, fetch_articles has
\* returned the valid articles of the pages before it, without raising and
\* without requesting that page again.
C3_ExhaustedPageEndsFetch ==
    failedPage # 0 =>
        /\ f_pc = "returned"
        /\ reqAfterFailed = 0
        /\ all_articles = ValidArticles(SubSeq(feed, 1, (failedPage - 1) * PageSize))

\* C14: the fetches of two consecutive pages of one call begin at least
\* min_request_interval apart on the clock _rate_limit reads: whenever a pass
\* of the while loop has gone through _rate_limit, at least that much time
\* lies between the stamp it took and the stamp of the pass before.
C14_RateLimitFloor ==
    fetchGap >= min_request_interval * TicksPerSecond

\* page 1 was answered at the first attempt within less than the interval, and
\* the fetch of page 2 has begun
C14_Witness ==
    /\ f_pc = "request" /\ page = 2 /\ attempt = 0
    /\ reqCount[1] = 1 /\ lastWait = NoWait
    /\ MaxRequestTicks < MinTicks
    /\ sinceStamp = 0
    /\ fetchGap >= MinTicks

\* C15: in one call no page number is requested more than max_retries times.
C15_AtMostMaxRetriesPerPage ==
    \A p \in DOMAIN reqCount : reqCount[p] <= max_retries

RateLimitSignals == {"rate_payload", "http429"}
TransportErrors == {"http_error", "request_exception"}

\* the attempt after the wait is the next one of the same page
RetriesSamePage ==
    f_pc = "request" /\ page = lastWait.page /\ attempt = lastWait.k

\* C16 as stated: after the k-th attempt of a page met a rate-limit signal (HTTP
\* 429 or an error payload naming a rate limit) the wait is 60 s times k.
C16_RateLimitWaitEscalates ==
    lastWait.out \in RateLimitSignals =>
        lastWait.seconds = RateLimitBackoff * lastWait.k

\* C16, amended: after the k-th attempt of a page met HTTP 429 the wait is 60 s
\* times k; after it met an error payload naming a rate limit the wait is 60 s
\* whatever k; while attempts remain the same page is then requested again.
C16_RateLimitWaits ==
    /\ lastWait.out = "http429" =>
         lastWait.seconds = RateLimitBackoff * lastWait.k
    /\ lastWait.out = "rate_payload" =>
         lastWait.seconds = RateLimitPayloadWait
    /\ (lastWait.out \in RateLimitSignals /\ lastWait.k < max_retries) =>
         RetriesSamePage

C16_Witness ==
    /\ lastWait.out = "rate_payload"
    /\ lastWait.k = 2
    /\ f_pc = "request" /\ attempt = 2

\* C17: after the k-th failed attempt of a page caused by a transport error,
\* with attempts remaining, the wait is retry_delay times k and the next
\* attempt of that page follows.
C17_LinearBackoff ==
    lastWait.out \in TransportErrors =>
        /\ lastWait.k < max_retries
        /\ lastWait.seconds = retry_delay * lastWait.k
        /\ RetriesSamePage

C17_Witness ==
    /\ lastWait.out = "request_exception"
    /\ lastWait.k = 2
    /\ lastWait.seconds > retry_delay
    /\ f_pc = "request"

\* C26: pages are requested in the order 1, 2, 3, ...: the page requested next
\* is the one after the highest page received in full, a page is requested only
\* after the page before it was received, no page beyond max_pages is
\* requested, and nothing is requested once a page came back with no articles.
C26_PagesInOrder ==
    /\ \A p \in DOMAIN reqCount :
          reqCount[p] > 0 => (p <= max_pages /\ fullPages >= p - 1)
    /\ f_pc = "request" => (page = fullPages + 1 /\ page <= max_pages)
    /\ (articles.bound /\ articles.val = <<>>) => f_pc = "returned"

\* page 1 came in full, page 2 came back empty, and the call is over
C26_Witness ==
    /\ fullPages = 1 /\ page = 2 /\ reqCount[2] = 1
    /\ articles = Bound(<<>>)
    /\ max_pages > 2
    /\ f_pc = "returned"

\* C25: every request of fetch_articles, retries and the first request after a
\* retried page included, starts at least min_request_interval after the
\* request before it completed.
C25_EveryRequestSpaced ==
    f_pc = "request" => requestGap >= min_request_interval * TicksPerSecond

-----------------------------------------------------------------------------
(* Claims about the ingestion run *)

\* every required field present and non-empty
Complete(article) ==
    \A field \in required_fields : ~ Falsy(Get(article, field))

\* C4: when two runs fetched the same articles from the upstream, the
\* second run enqueues nothing and reports every one of them as a duplicate,
\* also when both lookups succeeded and the queue rejected nothing.
C4_SecondRunEnqueuesNothing ==
    \A i \in 1..Len(t_results), j \in 1..Len(t_results) :
        (/\ i < j
         /\ t_results[i].has_queue_result /\ t_results[j].has_queue_result
         /\ t_results[i].fetched = t_results[j].fetched
         /\ t_results[i].lookup_ok /\ t_results[j].lookup_ok
         /\ t_results[i].rejected = {}) =>
            /\ t_results[j].queue_result.new = 0
            /\ t_results[j].queue_result.duplicates = Len(t_results[j].fetched)

\* C5: the articles one queue_articles call hands to the queue carry pairwise
\* different URLs, are valid, and none of them has a URL of the record store.
C5_AtMostOncePerUrl ==
    LET sent == q_call.to_celery \o q_call.to_redis
    IN  (q_call.called /\ q_call.lookup_ok) =>
          /\ \A i, j \in 1..Len(sent) :
                i # j => Get(sent[i], "url") # Get(sent[j], "url")
          /\ \A i \in 1..Len(sent) :
                /\ ValidateArticle(sent[i])
                /\ Get(sent[i], "url") \notin q_call.store

\* C6: no entry with a missing or empty title, URL, source or published
\* timestamp is among the articles fetch_articles collected or is in the queue.
C6_OnlyCompleteEntries ==
    /\ \A i \in 1..Len(all_articles) : Complete(all_articles[i])
    /\ \A i \in 1..Len(queue) : Complete(queue[i])

\* C7: a run over a feed of one valid unseen article and one entry without
\* title reports {total: 2, new: 1, duplicates: 0, invalid: 1, failed: 0}
\* when the queue accepted the article.
C7_InvalidEntriesCounted ==
    \A i \in 1..Len(t_results) :
        (/\ feed \in {<<ArtA, NoTitle>>, <<NoTitle, ArtA>>}
         /\ "a" \notin db
         /\ i = 1
         /\ t_results[i].status = "success"
         /\ t_results[i].lookup_ok
         /\ t_results[i].rejected = {}) =>
            /\ t_results[i].has_queue_result
            /\ t_results[i].queue_result = Counts(2, 1, 0, 1, 0)

\* what the last queue_articles call handed to a queue, in order
Submitted == q_call.to_celery \o q_call.to_redis

C19_SubmissionsIndependent ==
    q_call.called =>
        LET n == Len(q_call.new_articles)
            rej == q_call.rejected
            before(i) == Cardinality({r \in rej : r < i})
        IN  /\ rej \subseteq 1..n
            /\ q_call.result.failed = Cardinality(rej)
            /\ q_call.result.new = n - Cardinality(rej)
            /\ Len(Submitted) = n - Cardinality(rej)
            /\ \A i \in (1..n) \ rej :
                  Submitted[i - before(i)] = q_call.new_articles[i]

C19_Witness ==
    /\ q_call.called
    /\ Len(q_call.new_articles) = 2
    /\ q_call.rejected = {1}
    /\ Submitted = <<q_call.new_articles[2]>>
    /\ q_call.result.failed = 1 /\ q_call.result.new = 1

\* C20: with the lookup working, a valid entry is kept from the queue exactly
\* when its URL is in the record store, and 'duplicates' is the number of
\* entries kept out for that reason.
C20_DuplicatesCountsExcludedEntries ==
    (q_call.called /\ q_call.lookup_ok) =>
        LET valid == ValidArticles(q_call.batch)
            known == {i \in 1..Len(valid) : Get(valid[i], "url") \in q_call.store}
            offered == {Get(q_call.new_articles[i], "url") :
                          i \in 1..Len(q_call.new_articles)}
        IN  /\ \A i \in 1..Len(valid) :
                  (i \in known) <=> (Get(valid[i], "url") \notin offered)
            /\ q_call.result.duplicates = Cardinality(known)

-----------------------------------------------------------------------------
(* Claims about LLMService *)

\* the capability raised, or returned text that json.loads cannot parse
CapabilityFailed(reply) ==
    \/ reply.kind \in {"openai_error", "bad_request", "exception"}
    \/ reply.kind = "response" /\ ~ JsonLoads(reply.content).ok

\* C8: the sentiment_score classify_sentiment returns lies in [-1.0, 1.0].
C8_ScoreClamped ==
    llm_op = "classify_sentiment" =>
        (-10 <= llm_result.sentiment_score /\ llm_result.sentiment_score <= 10)

\* C9: when the capability raises or returns unparseable output on a
\* check_relevance call with tracked tickers, the result is relevant = true
\* with confidence exactly 0.5.
C9_RelevanceFailsOpen ==
    (/\ llm_op = "check_relevance"
     /\ llm_args.tracked_tickers # <<>>
     /\ CapabilityFailed(llm_reply)) =>
        (llm_result.relevant = TRUE /\ llm_result.confidence = 5)

\* C9 happens: a reply that is no JSON was answered by the fail-open value
C9_Witness ==
    /\ llm_op = "check_relevance"
    /\ llm_args.tracked_tickers # <<>>
    /\ llm_reply.kind = "response"
    /\ llm_reply.content.text = "garbage"
    /\ llm_result.relevant = TRUE

\* C10: check_relevance with an empty ticker list returns relevant = false,
\* no companies and confidence 0.0, and sends nothing to the capability.
C10_EmptyTickersShortCircuit ==
    (llm_op = "check_relevance" /\ llm_args.tracked_tickers = <<>>) =>
        /\ llm_result = RelevanceResult(FALSE, <<>>, 0)
        /\ ~ llm_request.sent
        /\ llm_reply = NoReply

\* C10 happens: a call with a title, a content and no tickers
C10_Witness ==
    /\ llm_op = "check_relevance"
    /\ llm_args.tracked_tickers = <<>>
    /\ llm_args.title # <<>>
    /\ Len(llm_args.content) > MAX_CONTENT_LENGTH
    /\ llm_result.relevant = FALSE

\* the text of the capability as summarize_article reads it (stripped), when
\* the capability answered with a text
SummaryText == Strip(llm_reply.content.value)

Overlong ==
    /\ llm_op = "summarize_article"
    /\ llm_reply.kind = "response"
    /\ llm_reply.content.text = "plain"
    /\ Len(SummaryText) > llm_args.max_length

\* C11 as stated: the summary is never longer than max_length plus the marker,
\* and a capability text longer than max_length is cut where a word ends (the
\* character after the cut is a space) and gets the marker appended.
C11_CutAtWordBoundary ==
    llm_op = "summarize_article" =>
        /\ Len(llm_result.summary) <= llm_args.max_length + Len(Marker)
        /\ Overlong =>
             \E n \in 0..llm_args.max_length :
                /\ llm_result.summary = SubSeq(SummaryText, 1, n) \o Marker
                /\ SummaryText[n + 1] = " "

\* C11, amended: the summary is never longer than max_length plus the marker; a
\* capability text longer than max_length is cut before the last space among its
\* first max_length characters, or after max_length characters when they hold
\* no space, and gets the marker appended.
C11_BoundedCutAtLastSpace ==
    llm_op = "summarize_article" =>
        /\ Len(llm_result.summary) <= llm_args.max_length + Len(Marker)
        /\ Overlong =>
             \E n \in 0..llm_args.max_length :
                /\ llm_result.summary = SubSeq(SummaryText, 1, n) \o Marker
                /\ \A j \in (n + 2)..llm_args.max_length : SummaryText[j] # " "
                /\ n < llm_args.max_length => SummaryText[n + 1] = " "
                /\ n = llm_args.max_length =>
                     \A j \in 1..llm_args.max_length : SummaryText[j] # " "

C11_Witness ==
    /\ Overlong
    /\ \E j \in 2..llm_args.max_length : SummaryText[j] = " "
    /\ Len(llm_result.summary) > Len(Marker)
    /\ Len(llm_result.summary) < llm_args.max_length + Len(Marker)

\* C12: summarize_article never returns an empty string, whatever the capability
\* does and whatever the article content.
C12_NeverEmpty ==
    llm_op = "summarize_article" => llm_result.summary # <<>>

\* C13: when the capability fails during classify_sentiment (it raises, or its
\* text cannot be parsed) the result is exactly score 0.0, label "neutral",
\* confidence 0.0.
C13_SentimentNeutralOnFailure ==
    (llm_op = "classify_sentiment" /\ CapabilityFailed(llm_reply)) =>
        /\ llm_result.sentiment_score = 0
        /\ llm_result.sentiment_label = "neutral"
        /\ llm_result.confidence = 0

C13_Witness ==
    /\ llm_op = "classify_sentiment"
    /\ llm_reply.kind = "openai_error"
    /\ llm_args.content # <<>>
    /\ llm_result.sentiment_label = "neutral"

\* C31: an error of the capability that indicates a programming bug (a
\* malformed request) is surfaced by check_relevance, summarize_article and
\* classify_sentiment: none of them returns its fallback value for it.
C31_BugErrorsAreFatal ==
    (llm_reply.kind = "bad_request") =>
        /\ llm_op = "check_relevance" => llm_result # RelevanceFallback
        /\ llm_op = "classify_sentiment" => llm_result # SentimentFallback
        /\ llm_op = "summarize_article" =>
              llm_result.summary #
                 SummaryFallback(Truncate(llm_args.content), llm_args.max_length)

\* C32: the sentiment_label classify_sentiment returns is always one of
\* positive, negative, neutral, whatever the capability answered.
C32_LabelInEnum ==
    llm_op = "classify_sentiment" =>
        llm_result.sentiment_label \in {"positive", "negative", "neutral"}

\* C33: the confidence check_relevance and classify_sentiment return is always
\* within [0, 1] (0..10 tenths), whatever the capability answered.
C33_ConfidenceInUnitInterval ==
    llm_op \in {"check_relevance", "classify_sentiment"} =>
        (0 <= llm_result.confidence /\ llm_result.confidence <= 10)

\* C34: the three operations cut the content at the same bound, and cutting
\* is idempotent: the content an operation sent is changed exactly when the
\* argument was longer than MAX_CONTENT_LENGTH, and cutting what was sent again
\* gives what was sent.
C34_TruncationIdempotent ==
    llm_request.sent =>
        /\ Truncate(llm_request.content) = llm_request.content
        /\ (llm_request.content # llm_args.content)
              <=> (Len(llm_args.content) > MAX_CONTENT_LENGTH)

\* summarize_article sent a content it had cut
C34_Witness ==
    /\ llm_op = "summarize_article"
    /\ llm_request.sent
    /\ Len(llm_args.content) > MAX_CONTENT_LENGTH
    /\ llm_request.content # llm_args.content

\* C35: the content an operation puts in the request is the argument itself
\* when it has at most MAX_CONTENT_LENGTH characters, otherwise its first
\* MAX_CONTENT_LENGTH characters followed by the marker; it is never longer than
\* MAX_CONTENT_LENGTH plus the length of the marker.
C35_RequestContentCapped ==
    llm_request.sent =>
        /\ Len(llm_request.content) <= MAX_CONTENT_LENGTH + Len(Marker)
        /\ llm_request.content =
              IF Len(llm_args.content) <= MAX_CONTENT_LENGTH
              THEN llm_args.content
              ELSE SubSeq(llm_args.content, 1, MAX_CONTENT_LENGTH) \o Marker

\* classify_sentiment sent the longest content it can send
C35_Witness ==
    /\ llm_op = "classify_sentiment"
    /\ llm_request.sent
    /\ Len(llm_args.content) > MAX_CONTENT_LENGTH
    /\ Len(llm_request.content) = MAX_CONTENT_LENGTH + Len(Marker)

\* check_relevance was called with tickers and the capability answered with a
\* JSON object
AnsweredObject ==
    /\ llm_op = "check_relevance"
    /\ llm_args.tracked_tickers # <<>>
    /\ llm_reply.kind = "response"
    /\ llm_reply.content.text = "json"
    /\ HasGet(llm_reply.content.value)

\* the fields of the JSON object the capability answered with
Answered == llm_reply.content.value.fields

\* C36 as stated: check_relevance returns relevant = false only when the ticker
\* list is empty or the capability answered with a JSON object whose "relevant"
\* is false or absent; an object without the field yields relevant = false with
\* confidence 0.0 and is not answered by the fail-open value.
C36_NotRelevantOnlyWhenSaid ==
    /\ (llm_op = "check_relevance" /\ llm_result.relevant = FALSE) =>
          \/ llm_args.tracked_tickers = <<>>
          \/ /\ AnsweredObject
             /\ "relevant" \in DOMAIN Answered => Answered.relevant = JBool(FALSE)
    /\ (AnsweredObject /\ "relevant" \notin DOMAIN Answered) =>
          (llm_result.relevant = FALSE /\ llm_result.confidence = 0)

\* the fields of the answer other than "relevant" pass the validation of
\* RelevanceResult
OtherFieldsValid ==
    /\ "companies" \in DOMAIN Answered => Answered.companies.t = "list"
    /\ "confidence" \in DOMAIN Answered => Answered.confidence.t = "num"

\* C36, amended: check_relevance returns relevant = false only when the ticker
\* list is empty or the capability answered with a JSON object whose "relevant"
\* is false, the number 0, or absent; an object without the field whose other
\* fields are valid yields relevant = false, with the confidence the object
\* carries, 0.0 when it carries none, and is not answered by the fail-open value.
C36_NotRelevantOnlyWhenSaidOrCoerced ==
    /\ (llm_op = "check_relevance" /\ llm_result.relevant = FALSE) =>
          \/ llm_args.tracked_tickers = <<>>
          \/ /\ AnsweredObject
             /\ "relevant" \in DOMAIN Answered =>
                   Answered.relevant \in {JBool(FALSE), JNum(0)}
    /\ (AnsweredObject /\ "relevant" \notin DOMAIN Answered /\ OtherFieldsValid) =>
          /\ llm_result.relevant = FALSE
          /\ llm_result.confidence =
                IF "confidence" \in DOMAIN Answered THEN Answered.confidence.n
                ELSE 0

\* an object that carries a confidence and no "relevant" was answered by
\* relevant = false
C36_Witness ==
    /\ AnsweredObject
    /\ "relevant" \notin DOMAIN Answered
    /\ "confidence" \in DOMAIN Answered
    /\ llm_result.relevant = FALSE
    /\ llm_result.confidence > 0

-----------------------------------------------------------------------------
(* Claims about the worker and the counts *)

\* C21: process_article_task reports an item as successfully processed only
\* after the three stages ran and the record was persisted: whenever it
\* returned success for a URL, the record store holds that URL.
C21_SuccessOnlyAfterPersist ==
    w_last.status = "success" => w_last.article_url \in db

C23_TerminalFailure ==
    /\ [](\A id \in DOMAIN w_items :
            w_items[id].status = "failure" =>
                w_items[id].retries = task_max_retries)
    /\ [][\A id \in DOMAIN w_items :
            w_items[id].status = "failure" =>
                /\ w_items'[id] = w_items[id]
                /\ Len(queue') <= Len(queue)]_vars
    /\ [][\A id \in DOMAIN w_items' :
            (/\ w_items'[id].status = "failure"
             /\ (id \in DOMAIN w_items => w_items[id].status # "failure"))
                => w_last'.status = "failure"]_vars

\* one message failed for good, and the message after it was processed since
C23_Witness ==
    /\ Len(w_items) = 2
    /\ w_items[1].status = "failure"
    /\ w_items[2].status = "success"
    /\ w_last.status = "success"

\* C27: no message accepted by the queue is lost when a worker is stopped or
\* crashes: every message a worker took is waiting for a retry, was processed,
\* or failed for good with the error reported.
C27_NoItemLost ==
    \A id \in DOMAIN w_items :
        w_items[id].status \in {"retry", "success", "failure"}

\* the entries of batch that carry URL u
Occurrences(batch, u) == {i \in DOMAIN batch : Get(batch[i], "url") = u}

\* C28: when the queue_articles calls of two runs overlap and each batch holds,
\* in one valid entry, the same URL that the record store does not hold, that
\* URL is put on the queue at most once in total.
C28_SharedUrlEnqueuedOnce ==
    \A u \in URLs \ db :
        (\A r \in OverlappingRuns :
            /\ Cardinality(Occurrences(q_runs[r].batch, u)) = 1
            /\ u \in Range(ArticleUrls(ValidArticles(q_runs[r].batch))))
        => Cardinality(Occurrences(queue, u)) <= 1

C37_OneLookupPerCall ==
    q_call.called =>
        /\ q_call.lookups <= 1
        /\ ValidArticles(q_call.batch) = <<>> =>
              /\ q_call.lookups = 0
              /\ q_call.to_celery = <<>> /\ q_call.to_redis = <<>>
              /\ queue = <<>> /\ redis_queue = <<>>

\* a call on a batch of several valid entries with different URLs
C37_Witness ==
    /\ q_call.called
    /\ Len(ValidArticles(q_call.batch)) = Len(q_call.batch)
    /\ Cardinality(Range(ArticleUrls(q_call.batch))) > 1
    /\ q_call.lookups > 0

C30_CountsAddUp ==
    q_call.called =>
        q_call.result.total =
            q_call.result.new + q_call.result.duplicates
            + q_call.result.invalid + q_call.result.failed

====
